---- MODULE Spec2Model ----
(***************************************************************************)
(* Model of the Magical Story Creator (src/Story_Engine.py, src/api.py).   *)
(*                                                                         *)
(* Text is a sequence of tokens.  A token is one character ("a", " ",      *)
(* "\n", "]") or one whole opening marker of a tag ("[TITLE:",             *)
(* "[KEY ITEM:", "[WISDOM GEM:", in either letter case).  No marker can be *)
(* formed across a token boundary, so a regular expression of the source   *)
(* matches the token sequence exactly where it matches the string.         *)
(***************************************************************************)
EXTENDS Integers, Sequences, FiniteSets, TLC

VARIABLES
    pc,        \* position of the operation under way in the current specification
    ai_text,   \* the raw text handed to parse_ai_response, or the analysis
               \* response text handed to analyze_story
    story,     \* the StoryOutput built by parse_ai_response, or the one
               \* analyze_story works on
    shape,     \* the parts a shaped raw text was assembled from (<<>>: free-form)
    construction, \* the last Character(...) call: its arguments and its outcome
    call,      \* the last generate_story call or POST /generate_story request:
               \* what it was given, what the model answered, what it returned
    characters_file,   \* characters.json: the records it holds (<<>>: empty,
                       \* missing or cut short, which all load as no character)
    saved_characters,  \* engine -> its self.saved_characters
    epc,       \* engine -> "off", "idle", or where its save_characters call is
    saved_ok,  \* engine -> what its last save_characters call returned ("none":
               \* no call has returned since the engine started or began a save)
    operation, \* the menu entry under way: the name its error_handling block has
    story_profile,   \* the StoryProfile (profile) of the story being created
    selected_characters,  \* get_story_characters' list (characters) as the user
                          \* has built it so far
    screen,    \* the story display_story_output has shown for this story (None: none)
    story_saved,  \* what save_story returned for this story ("none": not called)
    story_files,  \* the story files under stories/
    reported   \* the errors logged and printed since this story was begun

parseVars == <<ai_text, story, shape>>
charVars == <<construction>>
genVars == <<call>>
storeVars == <<characters_file, saved_characters, epc, saved_ok>>
frontVars == <<operation, story_profile, selected_characters, screen, story_saved, story_files, reported>>
vars == <<pc, parseVars, charVars, genVars, storeVars, frontVars>>

(***************************************************************************)
(* Bounds of the model.                                                    *)
(***************************************************************************)
MaxLen == 5        \* longest raw text, in tokens, of the free-form inputs
MaxContent == 2    \* longest tag content, in tokens, of the shaped inputs
MaxPlain == 1      \* longest plain filler between two tags of a shaped input
MaxName == 2       \* longest character name, in tokens, given to Character(...)
MaxNames == 22     \* how many distinct character names the capped store is given
MaxSharedNames == 2  \* how many distinct names the engines sharing a store use
MaxProfile == 2    \* most characters in the profile of one save
MaxGenLen == 3     \* longest story response text, in tokens
MaxAnalysisLen == 2  \* longest analysis response text, in tokens
MaxAnalysisText == 5 \* longest analysis response text given to analyze_story alone
AgeMargin == 2     \* how far beyond the valid ages the ages given to Character(...) go
MaxSelected == 2   \* most characters the user puts in one story

(***************************************************************************)
(* Strings.                                                                *)
(***************************************************************************)
WS == {" ", "\n"}                            \* what str.strip() and \s take
TitleOpen == {"[TITLE:", "[title:"}          \* \[TITLE:      under re.I
KeyItemOpen == {"[KEY ITEM:", "[key item:"}  \* \[KEY ITEM:   under re.I
WisdomOpen == {"[WISDOM GEM:", "[wisdom gem:"} \* \[WISDOM GEM: under re.I
Close == "]"
NewLine == "\n"

Min(S) == CHOOSE x \in S : \A y \in S : x <= y

SeqsUpTo(A, n) == UNION {[1..k -> A] : k \in 0..n}

RECURSIVE LStrip(_)
LStrip(s) ==
    IF s = <<>> THEN s
    ELSE IF Head(s) \in WS THEN LStrip(Tail(s)) ELSE s

RECURSIVE RStrip(_)
RStrip(s) ==
    IF s = <<>> THEN s
    ELSE IF s[Len(s)] \in WS THEN RStrip(SubSeq(s, 1, Len(s) - 1)) ELSE s

\* str.strip()
Strip(s) == RStrip(LStrip(s))

\* s contains t as a contiguous substring (Python: t in s)
Contains(s, t) ==
    \E i \in 1..(Len(s) + 1) :
        /\ i + Len(t) - 1 <= Len(s)
        /\ SubSeq(s, i, i + Len(t) - 1) = t

(***************************************************************************)
(* The regular expressions  \[TAG:(.*?)\]  of the source.                  *)
(***************************************************************************)
\* first index j >= i with s[j] in S, 0 when there is none
FirstAt(s, i, S) ==
    LET js == {j \in i..Len(s) : s[j] \in S}
    IN  IF js = {} THEN 0 ELSE Min(js)

\* MatchEnd as the pattern \[TAG:(.*?)(\]|$) would have it: an unclosed tag
\* matches through the end of the text
MatchEndOrEnd(s, i, open, dotall) ==
    IF i > Len(s) \/ s[i] \notin open THEN 0
    ELSE LET stop == IF dotall THEN {Close} ELSE {Close, NewLine}
             j == FirstAt(s, i + 1, stop)
         IN  IF j # 0 /\ s[j] = Close THEN j
             ELSE IF j = 0 THEN Len(s) + 1 ELSE 0

\* index of the closing bracket of the match that starts at i, 0 when no match
\* starts at i.  (.*?) is lazy: it stops at the first "]"; without re.DOTALL the
\* dot does not pass a newline.
MatchEnd(s, i, open, dotall) ==
    IF i > Len(s) \/ s[i] \notin open THEN 0
    ELSE LET stop == IF dotall THEN {Close} ELSE {Close, NewLine}
             j == FirstAt(s, i + 1, stop)
         IN  IF j # 0 /\ s[j] = Close THEN j ELSE 0

\* re.search(...).group(1): <<group>> of the leftmost match, <<>> when none
ReSearch(s, open, dotall) ==
    LET starts == {i \in 1..Len(s) : MatchEnd(s, i, open, dotall) # 0}
    IN  IF starts = {} THEN <<>>
        ELSE LET i == Min(starts)
             IN  <<SubSeq(s, i + 1, MatchEnd(s, i, open, dotall) - 1)>>

\* re.findall: the groups of the non-overlapping matches, left to right
RECURSIVE ReFindAll(_, _, _, _)
ReFindAll(s, i, open, dotall) ==
    IF i > Len(s) THEN <<>>
    ELSE LET j == MatchEnd(s, i, open, dotall)
         IN  IF j # 0
             THEN <<SubSeq(s, i + 1, j - 1)>> \o ReFindAll(s, j + 1, open, dotall)
             ELSE ReFindAll(s, i + 1, open, dotall)

\* first index k >= i whose token is not whitespace (Len(s) + 1 when none): \s*
SkipWS(s, i) ==
    LET ks == {k \in i..Len(s) : s[k] \notin WS}
    IN  IF ks = {} THEN Len(s) + 1 ELSE Min(ks)

\* re.sub in one left-to-right pass: every match is replaced by its group
\* (keepGroup, the replacement \1) or by nothing; eatSpace is a trailing \s*
RECURSIVE ReSub(_, _, _, _, _, _)
ReSub(s, i, open, dotall, keepGroup, eatSpace) ==
    IF i > Len(s) THEN <<>>
    ELSE LET j == MatchEnd(s, i, open, dotall)
         IN  IF j # 0
             THEN (IF keepGroup THEN SubSeq(s, i + 1, j - 1) ELSE <<>>)
                  \o ReSub(s, IF eatSpace THEN SkipWS(s, j + 1) ELSE j + 1,
                           open, dotall, keepGroup, eatSpace)
             ELSE <<s[i]>> \o ReSub(s, i + 1, open, dotall, keepGroup, eatSpace)

(***************************************************************************)
(* StoryOutput and parse_ai_response.                                      *)
(***************************************************************************)
UntitledAdventure == <<"Untitled Adventure">>

\* StoryOutput(): the dataclass defaults
StoryOutput ==
    [title |-> <<>>, text |-> <<>>, key_items |-> <<>>, wisdom_gem |-> <<>>,
     analysis |-> <<>>]

StripAll(items) == [k \in 1..Len(items) |-> Strip(items[k])]

parse_ai_response(text) ==
    LET title_match == ReSearch(text, TitleOpen, TRUE)
        wisdom_match == ReSearch(text, WisdomOpen, TRUE)
        no_title == ReSub(text, 1, TitleOpen, TRUE, FALSE, TRUE)
        no_item == ReSub(no_title, 1, KeyItemOpen, FALSE, TRUE, FALSE)
        no_gem == ReSub(no_item, 1, WisdomOpen, TRUE, FALSE, FALSE)
    IN  [StoryOutput EXCEPT
            !.title = IF title_match # <<>> THEN Strip(title_match[1])
                      ELSE UntitledAdventure,
            !.key_items = StripAll(ReFindAll(text, 1, KeyItemOpen, FALSE)),
            !.wisdom_gem = IF wisdom_match # <<>> THEN Strip(wisdom_match[1])
                           ELSE <<>>,
            !.text = Strip(no_gem)]

(***************************************************************************)
(* SpecParse: parse_ai_response applied to every raw text of at most       *)
(* MaxLen tokens.                                                          *)
(***************************************************************************)
Alphabet == {"[TITLE:", "[KEY ITEM:", "[WISDOM GEM:", "[key item:", "]", "\n", " ", "a"}

RawTexts == SeqsUpTo(Alphabet, MaxLen)

\* the variables of the other operations, at rest
CharIdle == construction = <<>>
GenIdle == call = <<>>
Engines == {1, 2}
StoreIdle ==
    /\ characters_file = <<>>
    /\ saved_characters = [e \in Engines |-> <<>>]
    /\ epc = [e \in Engines |-> "off"]
    /\ saved_ok = [e \in Engines |-> "none"]
ParseIdle == ai_text = <<>> /\ story = StoryOutput /\ shape = <<>>
FrontIdle ==
    /\ operation = "none"
    /\ story_profile = <<>>
    /\ selected_characters = <<>>
    /\ screen = <<>>
    /\ story_saved = "none"
    /\ story_files = {}
    /\ reported = <<>>

InitParse ==
    /\ pc = "raw"
    /\ ai_text \in RawTexts
    /\ story = StoryOutput
    /\ shape = <<>>
    /\ CharIdle
    /\ GenIdle
    /\ StoreIdle
    /\ FrontIdle

ParseAiResponse ==
    /\ pc = "raw"
    /\ story' = parse_ai_response(ai_text)
    /\ pc' = "parsed"
    /\ UNCHANGED <<ai_text, shape, charVars, genVars, storeVars, frontVars>>

NextParse == ParseAiResponse

SpecParse == InitParse /\ [][NextParse]_vars

\* s holds a complete tag of the kind: an opening marker and, after it, a
\* closing bracket
HasTag(s, open) ==
    \E i \in 1..Len(s) : \E j \in (i + 1)..Len(s) : s[i] \in open /\ s[j] = Close

AnyOpen == TitleOpen \cup KeyItemOpen \cup WisdomOpen

\* C2: a raw text with no TITLE, KEY ITEM or WISDOM GEM tag parses to the
\* fallback title "Untitled Adventure", no key items, an empty wisdom gem and
\* a body equal to the raw text with its surrounding whitespace trimmed.
NoTagFallback ==
    (pc = "parsed" /\ ~HasTag(ai_text, AnyOpen)) =>
        /\ story.title = UntitledAdventure
        /\ story.key_items = <<>>
        /\ story.wisdom_gem = <<>>
        /\ story.text = Strip(ai_text)

\* a parsed tag-free text that still holds an unclosed opening marker and
\* whitespace that the trimming removed
NoTagFallbackWitness ==
    /\ pc = "parsed"
    /\ ~HasTag(ai_text, AnyOpen)
    /\ \E i \in 1..Len(ai_text) : ai_text[i] \in AnyOpen
    /\ story.text # ai_text
    /\ story.text # <<>>

\* C3: the cleaned body of every parsed raw text holds no complete TITLE,
\* KEY ITEM or WISDOM GEM tag.
NoTagLeak ==
    pc = "parsed" => ~HasTag(story.text, AnyOpen)

\* C16: every entry of key_items of a parsed raw text appears as plain text
\* in the cleaned body: no item is extracted from a region that the TITLE or
\* WISDOM GEM removal deletes.
KeyItemsInBody ==
    pc = "parsed" =>
        \A k \in 1..Len(story.key_items) : Contains(story.text, story.key_items[k])

(***************************************************************************)
(* SpecRoundTrip: parse_ai_response applied to the raw texts of the shape  *)
(*   [TITLE: X] p1 [KEY ITEM: A] p2 [KEY ITEM: B] p3 [WISDOM GEM: Y]       *)
(***************************************************************************)
ContentAlphabet == {"a", "b", "\n"}
PlainAlphabet == {"a", "\n"}

\* tag contents: free of brackets, not blank
Contents ==
    {c \in SeqsUpTo(ContentAlphabet, MaxContent) : Strip(c) # <<>>}

Plains == SeqsUpTo(PlainAlphabet, MaxPlain)

Tag(marker, content) == <<marker, " ">> \o content \o <<Close>>

Shaped(sh) ==
    Tag("[TITLE:", sh.X) \o sh.p1 \o Tag("[KEY ITEM:", sh.A) \o sh.p2
    \o Tag("[KEY ITEM:", sh.B) \o sh.p3 \o Tag("[WISDOM GEM:", sh.Y)

InitRoundTrip ==
    /\ pc = "raw"
    /\ shape \in [X : Contents, A : Contents, B : Contents, Y : Contents,
                  p1 : Plains, p2 : Plains, p3 : Plains]
    /\ ai_text = Shaped(shape)
    /\ story = StoryOutput
    /\ CharIdle
    /\ GenIdle
    /\ StoreIdle
    /\ FrontIdle

NextRoundTrip == ParseAiResponse

SpecRoundTrip == InitRoundTrip /\ [][NextRoundTrip]_vars

\* C1: a raw text [TITLE: X]..[KEY ITEM: A]..[KEY ITEM: B]..[WISDOM GEM: Y]
\* parses to title X, key items <<A, B>>, wisdom gem Y, and a body that holds
\* A and B as plain text and no bracket tag.
RoundTrip ==
    pc = "parsed" =>
        /\ story.title = Strip(shape.X)
        /\ story.key_items = <<Strip(shape.A), Strip(shape.B)>>
        /\ story.wisdom_gem = Strip(shape.Y)
        /\ Contains(story.text, Strip(shape.A))
        /\ Contains(story.text, Strip(shape.B))
        /\ ~HasTag(story.text, AnyOpen)

(***************************************************************************)
(* Character: the dataclass and its __post_init__ validation.              *)
(***************************************************************************)
MinAge == 1
MaxAge == 18

\* Optional[...]: None, or the value it holds
None == <<>>
Some(v) == <<v>>

\* the value a call yields: the object it returns, or the exception it raises
Returned(v) == [raised |-> "none", value |-> v]
Raised(e, m) == [raised |-> e, value |-> m]

\* Character with the upper age limit off by one (age >= 18 refused)
CharacterOffByOne(name, age, personality, favorites, special_trait) ==
    IF Strip(name) = <<>>
    THEN Raised("ValueError", "Character name cannot be empty")
    ELSE IF age < MinAge \/ age >= MaxAge
    THEN Raised("ValueError", "Character age must be between 1 and 18")
    ELSE Returned([name |-> name, age |-> age, personality |-> personality,
                   favorites |-> favorites, special_trait |-> special_trait])

Character(name, age, personality, favorites, special_trait) ==
    IF Strip(name) = <<>>
    THEN Raised("ValueError", "Character name cannot be empty")
    ELSE IF age < MinAge \/ age > MaxAge
    THEN Raised("ValueError", "Character age must be between 1 and 18")
    ELSE Returned([name |-> name, age |-> age, personality |-> personality,
                   favorites |-> favorites, special_trait |-> special_trait])

(***************************************************************************)
(* SpecCharacter: Character(...) called with every name of at most MaxName *)
(* tokens and every age from MinAge - AgeMargin to MaxAge + AgeMargin.     *)
(***************************************************************************)
NameAlphabet == {" ", "a", "b"}
NameInputs == SeqsUpTo(NameAlphabet, MaxName)
AgeInputs == (MinAge - AgeMargin)..(MaxAge + AgeMargin)

InitCharacter ==
    /\ pc = "ready"
    /\ CharIdle
    /\ ParseIdle
    /\ GenIdle
    /\ StoreIdle
    /\ FrontIdle

NewCharacter(name, age) ==
    /\ pc = "ready"
    /\ construction' =
           [name |-> name, age |-> age,
            result |-> Character(name, age, <<"friendly">>, <<"adventures">>, None)]
    /\ pc' = "constructed"
    /\ UNCHANGED <<parseVars, genVars, storeVars, frontVars>>

NextCharacter ==
    /\ pc = "ready"
    /\ \E name \in NameInputs, age \in AgeInputs : NewCharacter(name, age)

SpecCharacter == InitCharacter /\ [][NextCharacter]_vars

\* C4: Character(...) raises exactly when the name is empty or blank or the
\* age is outside 1..18; a failed construction yields no Character, and a
\* successful one keeps the name and the age it was given.
ValidationBoundary ==
    pc = "constructed" =>
        LET r == construction.result
            bad == \/ \A i \in 1..Len(construction.name) : construction.name[i] \in WS
                   \/ construction.age \notin 1..18
        IN  /\ (r.raised = "ValueError") <=> bad
            /\ (r.raised = "none") <=> ~bad
            /\ ~bad => r.value.name = construction.name /\ r.value.age = construction.age

\* the first age above the valid range, given with a non-blank name, refused
ValidationBoundaryWitness ==
    /\ pc = "constructed"
    /\ construction.age = 19
    /\ construction.name = <<"a", " ">>
    /\ construction.result.raised = "ValueError"

(***************************************************************************)
(* The analysis pass: _extract_tag and analyze_story.                      *)
(***************************************************************************)
TargetAgeOpen == {"[TARGET_AGE:", "[target_age:"}
ReadingLevelOpen == {"[READING_LEVEL:", "[reading_level:"}
ThemesOpen == {"[THEMES:", "[themes:"}
IdeasOpen == {"[ILLUSTRATION_IDEAS:", "[illustration_ideas:"}
NA == <<"N/A">>
Dash == "-"

_extract_tag(text, open) ==
    LET match == ReSearch(text, open, FALSE)
    IN  IF match # <<>> THEN Strip(match[1]) ELSE NA

\* str.split(sep)
RECURSIVE Split(_, _)
Split(s, sep) ==
    LET j == FirstAt(s, 1, {sep})
    IN  IF j = 0 THEN <<s>>
        ELSE <<SubSeq(s, 1, j - 1)>> \o Split(SubSeq(s, j + 1, Len(s)), sep)

\* str.strip(chars)
RECURSIVE StripChars(_, _)
StripChars(s, chars) ==
    IF s = <<>> THEN s
    ELSE IF Head(s) \in chars THEN StripChars(Tail(s), chars)
    ELSE IF s[Len(s)] \in chars THEN StripChars(SubSeq(s, 1, Len(s) - 1), chars)
    ELSE s

RECURSIVE IdeasOf(_)
IdeasOf(lines) ==
    IF lines = <<>> THEN <<>>
    ELSE LET idea == Head(lines)
         IN  (IF Strip(idea) # <<>> /\ Head(Strip(idea)) = Dash
              THEN <<Strip(StripChars(idea, {Dash, " "}))>> ELSE <<>>)
             \o IdeasOf(Tail(lines))

\* the dictionary built from an analysis response text
AnalysisOf(text) ==
    LET base == [target_age |-> _extract_tag(text, TargetAgeOpen),
                 reading_level |-> _extract_tag(text, ReadingLevelOpen),
                 themes |-> _extract_tag(text, ThemesOpen)]
        ideas_match == ReSearch(text, IdeasOpen, TRUE)
    IN  IF ideas_match # <<>>
        THEN base @@ [illustration_ideas |->
                         IdeasOf(Split(Strip(ideas_match[1]), NewLine))]
        ELSE base

\* analyze_story without its try/except: a failure of the call propagates
analyze_story_uncaught(st, outcome) ==
    IF st.text = <<>> THEN Returned(st)
    ELSE IF outcome.raised # "none" THEN outcome
    ELSE Returned([st EXCEPT !.analysis = AnalysisOf(outcome.value)])

\* analyze_story(story), the analysis call answering `outcome`: the story as
\* the call leaves it.  A failure of the call is caught and logged.
analyze_story(st, outcome) ==
    IF st.text = <<>> THEN Returned(st)
    ELSE IF outcome.raised # "none" THEN Returned(st)
    ELSE Returned([st EXCEPT !.analysis = AnalysisOf(outcome.value)])

(***************************************************************************)
(* SpecAnalysis: analyze_story applied to a story with a body, the         *)
(* analysis call answering every text of at most MaxAnalysisText tokens.   *)
(***************************************************************************)
AnalysisTextAlphabet ==
    {"[TARGET_AGE:", "[THEMES:", "[ILLUSTRATION_IDEAS:", "]", "\n", "-", " ", "a"}

AnalysisTexts == SeqsUpTo(AnalysisTextAlphabet, MaxAnalysisText)

\* a generated story, as parse_ai_response leaves it
PlainStory == [StoryOutput EXCEPT !.title = UntitledAdventure, !.text = <<"a">>]

InitAnalysis ==
    /\ pc = "received"
    /\ ai_text \in AnalysisTexts
    /\ story = PlainStory
    /\ shape = <<>>
    /\ CharIdle
    /\ GenIdle
    /\ StoreIdle
    /\ FrontIdle

AnalyzeStory ==
    /\ pc = "received"
    /\ story' = analyze_story(story, Returned(ai_text)).value
    /\ pc' = "analysed"
    /\ UNCHANGED <<ai_text, shape, charVars, genVars, storeVars, frontVars>>

NextAnalysis == AnalyzeStory

SpecAnalysis == InitAnalysis /\ [][NextAnalysis]_vars

\* the content of the tag of the kind in s, <<>> wrapped as in Some/None: the
\* tokens between the first opening marker that has a closing bracket after
\* it and the first closing bracket after that marker
TagContent(s, open) ==
    IF ~HasTag(s, open) THEN None
    ELSE LET i == Min({k \in 1..Len(s) :
                          s[k] \in open /\ \E j \in (k + 1)..Len(s) : s[j] = Close})
             j == Min({k \in (i + 1)..Len(s) : s[k] = Close})
         IN  Some(SubSeq(s, i + 1, j - 1))

\* what the claim gives a one-value tag: its trimmed content, "N/A" when missing
TagValue(s, open) ==
    IF TagContent(s, open) = None THEN NA ELSE Strip(TagContent(s, open)[1])

DashPrefixed(line) == Strip(line) # <<>> /\ Head(Strip(line)) = Dash

\* a dash-prefixed line without its dashes and the blanks around it
Unprefixed(line) == Strip(StripChars(line, {Dash, " "}))

\* what the claim gives the illustration ideas: the dash-prefixed lines of the
\* tag in order, none when the tag is missing
TagIdeas(s) ==
    IF TagContent(s, IdeasOpen) = None THEN <<>>
    ELSE LET lines == SelectSeq(Split(TagContent(s, IdeasOpen)[1], NewLine), DashPrefixed)
         IN  [k \in 1..Len(lines) |-> Unprefixed(lines[k])]

\* C13: the analysis built from a received analysis text has target_age,
\* reading_level and themes equal to the trimmed content of their tags, "N/A"
\* for a missing tag, and illustration_ideas equal to the dash-prefixed lines
\* of its tag, the empty sequence for a missing tag.
AnalysisMatchesTags ==
    pc = "analysed" =>
        /\ DOMAIN story.analysis =
               {"target_age", "reading_level", "themes", "illustration_ideas"}
        /\ story.analysis.target_age = TagValue(ai_text, TargetAgeOpen)
        /\ story.analysis.reading_level = TagValue(ai_text, ReadingLevelOpen)
        /\ story.analysis.themes = TagValue(ai_text, ThemesOpen)
        /\ story.analysis.illustration_ideas = TagIdeas(ai_text)

(***************************************************************************)
(* StoryProfile, build_story_prompt and generate_story.                    *)
(***************************************************************************)
\* StoryProfile(): the dataclass defaults
StoryProfile ==
    [characters |-> <<>>, genre |-> None, tone |-> None, length |-> None,
     challenge |-> <<>>, magic |-> <<>>, hook_style |-> "action",
     magical_companion |-> None, twist |-> <<>>]

get_description(char) ==
    [name |-> char.name, age |-> char.age, personality |-> char.personality,
     favorites |-> char.favorites,
     special |-> IF char.special_trait # None /\ char.special_trait # Some(<<>>)
                 THEN char.special_trait ELSE None]

\* the prompt, clause by clause; profile.tone.value (and genre, length) raise
\* on a selection left at None
build_story_prompt(profile) ==
    IF profile.tone = None \/ profile.genre = None \/ profile.length = None
    THEN Raised("AttributeError", "'NoneType' object has no attribute 'value'")
    ELSE Returned(
        [tone |-> profile.tone[1], genre |-> profile.genre[1],
         length |-> profile.length[1],
         char_descriptions |->
             [k \in 1..Len(profile.characters) |->
                 get_description(profile.characters[k])],
         companion_text |-> profile.magical_companion,
         challenge |-> profile.challenge, magic |-> profile.magic,
         hook |-> IF profile.hook_style = "action" THEN "action"
                  ELSE "vivid description",
         twist_text |-> profile.twist])

\* generate_story without its try/except: a failure of the prompt, of the
\* story call or of the analysis propagates to the caller
generate_story_uncaught(profile, story_outcome, analysis_outcome) ==
    LET prompt == build_story_prompt(profile)
        weaving == <<"Weaving your magical story...">>
        Failed(e) == [raised |-> e.raised, value |-> e.value, printed |-> <<weaving>>]
    IN  IF prompt.raised # "none" THEN Failed(prompt)
        ELSE IF story_outcome.raised # "none" THEN Failed(story_outcome)
        ELSE LET analysed ==
                     analyze_story(parse_ai_response(story_outcome.value),
                                   analysis_outcome)
             IN  IF analysed.raised # "none" THEN Failed(analysed)
                 ELSE [raised |-> "none", value |-> Some(analysed.value),
                       printed |-> <<weaving>>]

\* generate_story(profile): what it raises (nothing: every exception is
\* caught), what it returns (None or the story) and what it prints, the story
\* call answering story_outcome and the analysis call analysis_outcome
generate_story(profile, story_outcome, analysis_outcome) ==
    LET prompt == build_story_prompt(profile)
        weaving == <<"Weaving your magical story...">>
        Failed(e) ==
            [raised |-> "none", value |-> None,
             printed |-> <<weaving, <<"Story generation failed: ", e.value>>>>]
    IN  IF prompt.raised # "none" THEN Failed(prompt)
        ELSE IF story_outcome.raised # "none" THEN Failed(story_outcome)
        ELSE LET analysed ==
                     analyze_story(parse_ai_response(story_outcome.value),
                                   analysis_outcome)
             IN  IF analysed.raised # "none" THEN Failed(analysed)
                 ELSE [raised |-> "none", value |-> Some(analysed.value),
                       printed |-> <<weaving>>]

(***************************************************************************)
(* POST /generate_story (src/api.py).                                      *)
(***************************************************************************)
CharacterFields == {"name", "age", "personality", "favorites", "special_trait"}
RequiredFields == {"name", "age", "personality", "favorites"}

\* Character(**kwargs): the __init__ the dataclass generates takes the declared
\* fields only
Character__init__(kwargs) ==
    IF \E k \in DOMAIN kwargs : k \notin CharacterFields
    THEN Raised("TypeError", "__init__() got an unexpected keyword argument")
    ELSE IF \E k \in RequiredFields : k \notin DOMAIN kwargs
    THEN Raised("TypeError", "__init__() missing required positional arguments")
    ELSE Character(kwargs.name, kwargs.age, kwargs.personality, kwargs.favorites,
                   IF "special_trait" \in DOMAIN kwargs THEN kwargs.special_trait
                   ELSE None)

HTTPException(status_code, detail) == [status |-> status_code, body |-> [detail |-> detail]]

\* the profile the route hands to generate_story, or what building it raises
route_profile(request) ==
    LET main_character ==
            Character__init__([name |-> request.character_name,
                               age |-> request.character_age,
                               gender |-> request.character_gender,
                               personality |-> request.character_personality,
                               favorites |-> request.character_loves])
    IN  IF main_character.raised # "none" THEN main_character
        ELSE Returned([StoryProfile EXCEPT
                          !.characters = <<main_character.value>>,
                          !.genre = Some(request.genre),
                          !.tone = Some(request.tone),
                          !.length = Some(request.length),
                          !.challenge = request.challenge,
                          !.magic = <<"friendship and courage">>])

\* the route handler: the HTTP response it produces
post_generate_story(request, story_outcome, analysis_outcome) ==
    LET built == route_profile(request)
        Unexpected(e) ==
            HTTPException(500, <<"An unexpected error occurred: ", e>>)
    IN  IF built.raised # "none" THEN Unexpected(built.value)
        ELSE LET story_output ==
                     generate_story(built.value, story_outcome, analysis_outcome)
             IN  IF story_output.raised # "none" THEN Unexpected(story_output.value)
                 ELSE IF story_output.value = None \/ story_output.value[1].text = <<>>
                 THEN Unexpected("500: Story generation failed.")
                 ELSE [status |-> 200,
                       body |-> [title |-> story_output.value[1].title,
                                 text |-> story_output.value[1].text,
                                 wisdom_gem |-> story_output.value[1].wisdom_gem,
                                 key_items |-> story_output.value[1].key_items]]

(***************************************************************************)
(* SpecGenerate: generate_story called by the terminal front end, and the  *)
(* route called by an HTTP client, against every answer of the model.      *)
(***************************************************************************)
GenAlphabet == {"[TITLE:", "[KEY ITEM:", "]", "a", " "}
AnalysisAlphabet == {"[THEMES:", "]", "a"}

\* the ways the external call fails: network, authentication, quota, and a
\* response whose .text cannot be read (empty or blocked)
Failures ==
    {Raised("ConnectionError", "network unreachable"),
     Raised("PermissionDenied", "API key not valid"),
     Raised("ResourceExhausted", "quota exceeded"),
     Raised("ValueError", "response has no text")}

StoryOutcomes == Failures \cup {Returned(t) : t \in SeqsUpTo(GenAlphabet, MaxGenLen)}

AnalysisOutcomes ==
    {Raised("ConnectionError", "network unreachable"),
     Raised("ResourceExhausted", "quota exceeded")}
    \cup {Returned(t) : t \in SeqsUpTo(AnalysisAlphabet, MaxAnalysisLen)}

\* Character("Hero", 8, "brave", "adventures"): the default character
Hero == Character(<<"Hero">>, 8, <<"brave">>, <<"adventures">>, None).value

Profiles ==
    {[StoryProfile EXCEPT !.characters = <<Hero>>],
     [StoryProfile EXCEPT !.characters = <<Hero>>,
                          !.genre = Some("Fantasy Adventure"),
                          !.tone = Some("gentle and heartwarming"),
                          !.length = Some("Short (~400 words)"),
                          !.challenge = <<"learning to be brave">>,
                          !.magic = <<"friendship magic">>]}

\* StoryRequest bodies: the given fields, the others at their defaults
Requests ==
    {[character_name |-> n, character_age |-> a, character_gender |-> <<"girl">>,
      character_personality |-> <<"curious and kind">>,
      character_loves |-> <<"exploring new places">>,
      challenge |-> <<"learning to be brave">>,
      genre |-> "Fantasy Adventure", tone |-> "gentle and heartwarming",
      length |-> "Short (~400 words)"] :
        n \in {<<>>, <<"Mia">>}, a \in {MinAge - 1, MinAge, MaxAge, MaxAge + 1}}

InitGenerate ==
    /\ pc = "ready"
    /\ GenIdle
    /\ CharIdle
    /\ ParseIdle
    /\ StoreIdle
    /\ FrontIdle

CallGenerateStory(profile, story_outcome, analysis_outcome) ==
    /\ pc = "ready"
    /\ call' = [op |-> "generate_story", given |-> profile,
                story_outcome |-> story_outcome,
                analysis_outcome |-> analysis_outcome,
                result |-> generate_story(profile, story_outcome, analysis_outcome)]
    /\ pc' = "called"
    /\ UNCHANGED <<parseVars, charVars, storeVars, frontVars>>

PostGenerateStory(request, story_outcome, analysis_outcome) ==
    /\ pc = "ready"
    /\ call' = [op |-> "POST /generate_story", given |-> request,
                story_outcome |-> story_outcome,
                analysis_outcome |-> analysis_outcome,
                result |-> post_generate_story(request, story_outcome,
                                               analysis_outcome)]
    /\ pc' = "called"
    /\ UNCHANGED <<parseVars, charVars, storeVars, frontVars>>

NextGenerate ==
    /\ pc = "ready"
    /\ \E so \in StoryOutcomes, ao \in AnalysisOutcomes :
        \/ \E profile \in Profiles : CallGenerateStory(profile, so, ao)
        \/ \E request \in Requests : PostGenerateStory(request, so, ao)

SpecGenerate == InitGenerate /\ [][NextGenerate]_vars

\* the story call of a generate_story call was made and answered with a text
StoryCallSucceeded ==
    /\ pc = "called"
    /\ call.op = "generate_story"
    /\ build_story_prompt(call.given).raised = "none"
    /\ call.story_outcome.raised = "none"

\* C8: when the story call succeeds and the analysis call fails,
\* generate_story returns the StoryOutput parsed from the story response,
\* with an empty analysis.
AnalysisFailureKeepsStory ==
    (StoryCallSucceeded /\ call.analysis_outcome.raised # "none") =>
        LET parsed == parse_ai_response(call.story_outcome.value)
        IN  /\ call.result.raised = "none"
            /\ call.result.value # None
            /\ call.result.value[1].title = parsed.title
            /\ call.result.value[1].text = parsed.text
            /\ call.result.value[1].key_items = parsed.key_items
            /\ call.result.value[1].wisdom_gem = parsed.wisdom_gem
            /\ call.result.value[1].analysis = <<>>

\* a story with a title, a key item and a body, whose analysis call failed
AnalysisFailureKeepsStoryWitness ==
    /\ StoryCallSucceeded
    /\ call.analysis_outcome.raised # "none"
    /\ call.story_outcome.value = <<"[KEY ITEM:", "a", "]">>
    /\ call.result.value # None

\* C9: when the story call fails, the caller of generate_story, and the HTTP
\* client of the route, receive the failure with its cause.
GenerationFailureReported ==
    (/\ pc = "called"
     /\ call.story_outcome.raised # "none"
     /\ \/ call.op = "generate_story" /\ build_story_prompt(call.given).raised = "none"
        \/ call.op = "POST /generate_story") =>
        IF call.op = "generate_story"
        THEN /\ call.result.raised = call.story_outcome.raised
             /\ call.result.value = call.story_outcome.value
        ELSE /\ call.result.status >= 400
             /\ Contains(call.result.body.detail, <<call.story_outcome.value>>)

WellFormed(request) ==
    /\ Strip(request.character_name) # <<>>
    /\ request.character_age \in 1..18

\* C10: for a well-formed request whose generation succeeds with a non-empty
\* text, the route answers 200 with {title, text, wisdom_gem, key_items} of
\* the parsed story.
RouteReturnsStory ==
    (/\ pc = "called"
     /\ call.op = "POST /generate_story"
     /\ WellFormed(call.given)
     /\ call.story_outcome.raised = "none"
     /\ parse_ai_response(call.story_outcome.value).text # <<>>) =>
        LET parsed == parse_ai_response(call.story_outcome.value)
        IN  /\ call.result.status = 200
            /\ call.result.body =
                   [title |-> parsed.title, text |-> parsed.text,
                    wisdom_gem |-> parsed.wisdom_gem,
                    key_items |-> parsed.key_items]

(***************************************************************************)
(* SpecPrompt: build_story_prompt applied to every profile of one or two   *)
(* characters whose selections (genre, tone, length) are each set or left  *)
(* unset, with or without a companion and a twist.                         *)
(***************************************************************************)
\* a character with a special trait
Mia == Character(<<"Mia">>, 6, <<"shy">>, <<"stars">>, Some(<<"talks to owls">>)).value

\* MagicalCompanion(...)
Companion ==
    [name |-> <<"Pip">>, emoji |-> <<"*">>, species |-> <<"dragon">>,
     appearance |-> <<"tiny and green">>, personality |-> <<"cheeky">>,
     quirk |-> <<"sneezes sparks">>, special_ability |-> <<"lights the way">>]

PromptProfiles ==
    {[StoryProfile EXCEPT !.characters = chars, !.genre = genre, !.tone = tone,
                          !.length = length, !.magical_companion = companion,
                          !.twist = twist, !.hook_style = hook_style,
                          !.challenge = <<"learning to be brave">>,
                          !.magic = <<"friendship magic">>] :
        chars \in {<<Hero>>, <<Mia>>, <<Hero, Mia>>},
        genre \in {None, Some("Fantasy Adventure")},
        tone \in {None, Some("gentle and heartwarming")},
        length \in {None, Some("Short (~400 words)")},
        companion \in {None, Some(Companion)},
        twist \in {<<>>, <<"the map was upside down">>},
        hook_style \in {"action", "descriptive"}}

InitPrompt ==
    /\ pc = "ready"
    /\ GenIdle
    /\ CharIdle
    /\ ParseIdle
    /\ StoreIdle
    /\ FrontIdle

BuildStoryPrompt(profile) ==
    /\ pc = "ready"
    /\ call' = [op |-> "build_story_prompt", given |-> profile,
                result |-> build_story_prompt(profile)]
    /\ pc' = "built"
    /\ UNCHANGED <<parseVars, charVars, storeVars, frontVars>>

NextPrompt ==
    /\ pc = "ready"
    /\ \E profile \in PromptProfiles : BuildStoryPrompt(profile)

SpecPrompt == InitPrompt /\ [][NextPrompt]_vars

\* C11: for every profile with at least one character, build_story_prompt
\* returns a prompt and raises nothing; no companion, an empty twist or a
\* selection left unset gives an empty clause.
PromptNeverFails ==
    (pc = "built" /\ Len(call.given.characters) >= 1) =>
        /\ call.result.raised = "none"
        /\ call.given.magical_companion = None => call.result.value.companion_text = None
        /\ call.given.twist = <<>> => call.result.value.twist_text = <<>>

(***************************************************************************)
(* The character store: FileManager.load_characters / save_characters /   *)
(* save_json_data and the store update of save_story_and_characters.       *)
(* An engine is one StoryEngine object in one process; the engines share   *)
(* characters.json.  save_json_data opens the file for writing, which cuts *)
(* it to nothing, and then dumps the data: two steps on the shared file.   *)
(***************************************************************************)
RetainedCharacters == 20

\* s[-n:]
LastN(s, n) == IF Len(s) <= n THEN s ELSE SubSeq(s, Len(s) - n + 1, Len(s))

\* [Character(**char_data) for char_data in data], [] when one of them raises
load_characters(file) ==
    IF \E i \in 1..Len(file) : Character__init__(file[i]).raised # "none"
    THEN <<>>
    ELSE [i \in 1..Len(file) |-> Character__init__(file[i]).value]

\* save_characters keeping the first 20 (characters[:20]) instead of the last
save_characters_oldest(characters) ==
    IF Len(characters) <= RetainedCharacters THEN characters
    ELSE SubSeq(characters, 1, RetainedCharacters)

\* the data save_characters hands to save_json_data
save_characters(characters) == LastN(characters, RetainedCharacters)

\* the characters of the profile whose name is not in self.saved_characters
new_characters(saved, profile_characters) ==
    LET existing_names == {saved[i].name : i \in 1..Len(saved)}
        IsNew(char) == char.name \notin existing_names
    IN  SelectSeq(profile_characters, IsNew)

\* StoryEngine.__init__ in a new process: self.saved_characters is loaded
StartEngine(e) ==
    /\ epc[e] \in {"off", "idle"}
    /\ saved_characters' = [saved_characters EXCEPT ![e] = load_characters(characters_file)]
    /\ epc' = [epc EXCEPT ![e] = "idle"]
    /\ saved_ok' = [saved_ok EXCEPT ![e] = "none"]
    /\ UNCHANGED <<pc, characters_file, parseVars, charVars, genVars, frontVars>>

\* save_story_and_characters, lines 682-690: the new characters are appended
\* to self.saved_characters and save_characters is entered
SaveStoryAndCharacters(e, profile_characters) ==
    /\ epc[e] = "idle"
    /\ LET new == new_characters(saved_characters[e], profile_characters)
       IN  IF new # <<>>
           THEN /\ saved_characters' = [saved_characters EXCEPT ![e] = @ \o new]
                /\ epc' = [epc EXCEPT ![e] = "open"]
                /\ saved_ok' = [saved_ok EXCEPT ![e] = "none"]
           ELSE UNCHANGED <<saved_characters, epc, saved_ok>>
    /\ UNCHANGED <<pc, characters_file, parseVars, charVars, genVars, frontVars>>

\* save_json_data: open(filepath, 'w')
OpenCharactersFile(e) ==
    /\ epc[e] = "open"
    /\ characters_file' = <<>>
    /\ epc' = [epc EXCEPT ![e] = "dump"]
    /\ UNCHANGED <<pc, saved_characters, saved_ok, parseVars, charVars, genVars, frontVars>>

\* save_json_data: open fails; the error is logged and False returned
OpenFails(e) ==
    /\ epc[e] = "open"
    /\ epc' = [epc EXCEPT ![e] = "idle"]
    /\ saved_ok' = [saved_ok EXCEPT ![e] = "False"]
    /\ UNCHANGED <<pc, characters_file, saved_characters, parseVars, charVars, genVars, frontVars>>

\* save_json_data: json.dump writes the data; True is returned
DumpCharacters(e) ==
    /\ epc[e] = "dump"
    /\ characters_file' = save_characters(saved_characters[e])
    /\ epc' = [epc EXCEPT ![e] = "idle"]
    /\ saved_ok' = [saved_ok EXCEPT ![e] = "True"]
    /\ UNCHANGED <<pc, saved_characters, parseVars, charVars, genVars, frontVars>>

\* save_json_data: json.dump fails; the file is left cut short, False returned
DumpFails(e) ==
    /\ epc[e] = "dump"
    /\ characters_file' = <<>>
    /\ epc' = [epc EXCEPT ![e] = "idle"]
    /\ saved_ok' = [saved_ok EXCEPT ![e] = "False"]
    /\ UNCHANGED <<pc, saved_characters, parseVars, charVars, genVars, frontVars>>

\* the character the user enters under the k-th name
Named(k, age) == Character(<<ToString(k)>>, age, <<"friendly">>, <<"adventures">>, None).value

Names(chars) == {chars[i].name : i \in 1..Len(chars)}

NonEmptySeqsUpTo(A, n) == SeqsUpTo(A, n) \ {<<>>}

(***************************************************************************)
(* SpecShared: two engines on one characters.json, saving profiles of one  *)
(* to MaxProfile characters over MaxSharedNames names.                     *)
(***************************************************************************)
SharedCharacters == {Named(k, 8) : k \in 1..MaxSharedNames}
SharedProfiles == NonEmptySeqsUpTo(SharedCharacters, MaxProfile)

InitShared ==
    /\ pc = "store"
    /\ StoreIdle
    /\ ParseIdle
    /\ CharIdle
    /\ GenIdle
    /\ FrontIdle

NextShared ==
    \E e \in Engines :
        \/ StartEngine(e)
        \/ \E chars \in SharedProfiles : SaveStoryAndCharacters(e, chars)
        \/ OpenCharactersFile(e)
        \/ OpenFails(e)
        \/ DumpCharacters(e)
        \/ DumpFails(e)

SpecShared == InitShared /\ [][NextShared]_vars

\* C5: the character store never holds two entries with the same name.
NoDuplicateNames ==
    \A i, j \in 1..Len(characters_file) :
        characters_file[i].name = characters_file[j].name => i = j

\* C7: once two engines have each saved new characters to the same store,
\* the characters of both are in the store: no update is lost.
NoLostUpdate ==
    (\A e \in Engines : epc[e] = "idle" /\ saved_ok[e] = "True") =>
        \A e \in Engines : Names(saved_characters[e]) \subseteq Names(characters_file)

(***************************************************************************)
(* SpecCap: one engine, across restarts, saving up to MaxNames distinct    *)
(* names in profiles of one to MaxProfile characters: the next unused      *)
(* names, the oldest saved character, or the first name ever used.         *)
(***************************************************************************)
IdOf(name) == CHOOSE k \in 1..(MaxNames + 1) : <<ToString(k)>> = name

NextId ==
    LET used == {IdOf(n) : n \in Names(saved_characters[1]) \cup Names(characters_file)}
    IN  IF used = {} THEN 1 ELSE 1 + CHOOSE k \in used : \A m \in used : m <= k

\* the next k unused names, in order
RECURSIVE NewNames(_, _)
NewNames(from, k) ==
    IF k = 0 \/ from > MaxNames THEN <<>>
    ELSE <<Named(from, 8)>> \o NewNames(from + 1, k - 1)

CapProfiles ==
    LET oldest == IF saved_characters[1] = <<>> THEN <<>>
                  ELSE <<Head(saved_characters[1])>>
    IN  ({NewNames(NextId, k) : k \in 1..MaxProfile}
         \cup {oldest \o NewNames(NextId, k) : k \in 0..(MaxProfile - 1)}
         \cup {<<Named(1, 8)>>}) \ {<<>>}

InitCap ==
    /\ pc = "store"
    /\ characters_file = <<>>
    /\ saved_characters = [e \in Engines |-> <<>>]
    /\ epc = [e \in Engines |-> IF e = 1 THEN "idle" ELSE "off"]
    /\ saved_ok = [e \in Engines |-> "none"]
    /\ ParseIdle
    /\ CharIdle
    /\ GenIdle
    /\ FrontIdle

NextCap ==
    \/ StartEngine(1)
    \/ \E chars \in CapProfiles : SaveStoryAndCharacters(1, chars)
    \/ OpenCharactersFile(1)
    \/ OpenFails(1)
    \/ DumpCharacters(1)
    \/ DumpFails(1)

SpecCap == InitCap /\ [][NextCap]_vars

\* C6: the character store file never holds more than 20 records, and after
\* a save that wrote it, it holds the characters added last, at most 20 of
\* them, in the order they were added, the most recent last.
StoreCapped ==
    /\ Len(characters_file) <= 20
    /\ (epc[1] = "idle" /\ saved_ok[1] = "True") =>
          LET all == saved_characters[1]
              n == Len(characters_file)
          IN  /\ n = IF Len(all) > 20 THEN 20 ELSE Len(all)
              /\ \A i \in 1..n : characters_file[i] = all[Len(all) - n + i]

\* a save that brought the engine's characters above 20 and evicted the oldest
StoreCappedWitness ==
    /\ epc[1] = "idle"
    /\ saved_ok[1] = "True"
    /\ Len(saved_characters[1]) = 22
    /\ Len(characters_file) = 20
    /\ characters_file[20] = saved_characters[1][22]
    /\ characters_file[1] = saved_characters[1][3]

\* C17: within one engine session, after every successful character save,
\* self.saved_characters holds at most 20 characters and equals the contents
\* of the store file just written.
MemoryMatchesStore ==
    (epc[1] = "idle" /\ saved_ok[1] = "True") =>
        /\ Len(saved_characters[1]) <= 20
        /\ saved_characters[1] = load_characters(characters_file)

(***************************************************************************)
(* The terminal front end: run, create_custom_story, create_surprise_story,*)
(* get_story_characters, save_story and save_story_and_characters.         *)
(* One engine (engine 1) in one process; every input() and every answer of *)
(* the outside (the model, the file system) is an input of a step.         *)
(***************************************************************************)
\* get_story_characters without its default: an empty selection is returned
get_story_characters_no_default(chosen) == chosen

\* what get_story_characters returns for the list the user built (lines
\* 514-518): the default character when the list is empty
get_story_characters(chosen) ==
    IF chosen = <<>> THEN <<Hero>> ELSE chosen

\* the content of a story file
_format_story_content(st, prof) ==
    [title |-> st.title,
     genre |-> IF prof.genre # None THEN prof.genre[1] ELSE "N/A",
     tone |-> IF prof.tone # None THEN prof.tone[1] ELSE "N/A",
     length |-> IF prof.length # None THEN prof.length[1] ELSE "N/A",
     text |-> st.text, key_items |-> st.key_items, wisdom_gem |-> st.wisdom_gem]

\* a logger.error record, a line printed on the terminal
Logged(text) == [by |-> "logger.error", text |-> text]
Printed(text) == [by |-> "print", text |-> text]

\* save_story whose except clause logs nothing
save_story_silent(st, prof, mkdir, write) ==
    LET filename == [folder |-> IF prof.genre # None THEN prof.genre[1] ELSE "general",
                     title |-> st.title]
    IN  IF mkdir.raised # "none"
        THEN [raised |-> mkdir.raised, value |-> mkdir.value, logged |-> <<>>,
              written |-> {}]
        ELSE IF write.raised # "none"
        THEN [raised |-> "none", value |-> None, logged |-> <<>>, written |-> {}]
        ELSE [raised |-> "none", value |-> Some(filename), logged |-> <<>>,
              written |-> {[name |-> filename,
                            content |-> _format_story_content(st, prof)]}]

\* save_story(story, profile), genre_path.mkdir answering `mkdir` and the
\* open/write of the file `write`: what it raises, what it returns (None or
\* the file name), what it logs as an error and the file it leaves.  The
\* mkdir call stands outside the try block; the file name is the genre
\* folder and the title (the time stamp is left out).
save_story(st, prof, mkdir, write) ==
    LET filename == [folder |-> IF prof.genre # None THEN prof.genre[1] ELSE "general",
                     title |-> st.title]
    IN  IF mkdir.raised # "none"
        THEN [raised |-> mkdir.raised, value |-> mkdir.value, logged |-> <<>>,
              written |-> {}]
        ELSE IF write.raised # "none"
        THEN [raised |-> "none", value |-> None,
              logged |-> <<Logged(<<"Error saving story: ", write.value>>)>>,
              written |-> {}]
        ELSE [raised |-> "none", value |-> Some(filename), logged |-> <<>>,
              written |-> {[name |-> filename,
                            content |-> _format_story_content(st, prof)]}]

\* what the except clause of error_handling(operation) reports for e, before
\* it raises e again
error_handling(op, e) ==
    <<Logged(<<"Error during ", op, ": ", e.value>>),
      Printed(<<"Error during ", op, ": ", e.value>>)>>

\* an exception e leaving a menu entry: reported by the entry's
\* error_handling, by run's, and by main, which ends the process
Uncaught(op, e) ==
    error_handling(op, e) \o error_handling("application startup", e)
    \o <<Logged(<<"Application error: ", e.value>>),
         Printed(<<"An unexpected error occurred: ", e.value>>)>>

(***************************************************************************)
(* SpecFront: the menu loop of run on a store that starts empty, and the   *)
(* route of src/api.py, with up to MaxSelected characters in a story.      *)
(***************************************************************************)
\* the characters the user enters when asked for a new one
UserCharacters == {Named(1, 8), Named(2, 8)}

\* what the user types at "Enter number to add character, 'n' for new, or
\* Enter to continue": nothing, n, a number from 0 up, anything else
MaxShown == 2 * MaxSelected + 1
Numbers == {ToString(i) : i \in 0..(MaxShown + 1)}
SelectionInputs == {"", "n", "x"} \cup Numbers
int(choice) == CHOOSE i \in 0..(MaxShown + 1) : ToString(i) = choice

FrontStoryOutcomes ==
    {Raised("ConnectionError", "network unreachable"),
     Returned(<<"[TITLE:", "a", "]", "a">>)}

FrontAnalysisOutcomes ==
    {Raised("ResourceExhausted", "quota exceeded"), Returned(<<"[THEMES:", "a", "]">>)}

MkdirOutcomes == {Returned("made"), Raised("FileNotFoundError", "No such file or directory: 'stories'")}
WriteOutcomes == {Returned("written"), Raised("OSError", "No space left on device")}
DumpOutcomes == {"written", "open fails", "dump fails"}

\* the profile of create_custom_story after the three get_enum_choice calls
CustomSelections ==
    [StoryProfile EXCEPT !.genre = Some("Fantasy Adventure"),
                         !.tone = Some("gentle and heartwarming"),
                         !.length = Some("Short (~400 words)")]

\* get_story_details(profile), the user taking the defaults
get_story_details(prof) ==
    [prof EXCEPT !.challenge = <<"learning to be brave">>,
                 !.magic = <<"friendship magic">>,
                 !.hook_style = "description"]

\* the profile of create_surprise_story before the characters are asked for
SurpriseSelections ==
    [StoryProfile EXCEPT !.genre = Some("Fantasy Adventure"),
                         !.tone = Some("gentle and heartwarming"),
                         !.length = Some("Short (~400 words)"),
                         !.magical_companion = Some(Companion),
                         !.twist = <<"the map was upside down">>,
                         !.challenge = <<"overcoming an unexpected challenge together">>,
                         !.magic = <<"mysterious and unpredictable powers">>]

InitFront ==
    /\ pc \in {"menu", "ready"}
    /\ characters_file = <<>>
    /\ saved_characters = [e \in Engines |-> <<>>]
    /\ epc = [e \in Engines |-> IF e = 1 /\ pc = "menu" THEN "idle" ELSE "off"]
    /\ saved_ok = [e \in Engines |-> "none"]
    /\ operation = "none"
    /\ story_profile = StoryProfile
    /\ selected_characters = <<>>
    /\ screen = None
    /\ story_saved = "none"
    /\ story_files = {}
    /\ reported = <<>>
    /\ ParseIdle
    /\ CharIdle
    /\ GenIdle

\* the start of a menu entry that creates a story, up to the first question
\* of get_story_characters
BeginStory(op, selections) ==
    /\ operation' = op
    /\ story_profile' = selections
    /\ selected_characters' = <<>>
    /\ screen' = None
    /\ story_saved' = "none"
    /\ reported' = <<>>
    /\ call' = <<>>
    /\ pc' = IF saved_characters[1] # <<>> THEN "select" ELSE "first"
    /\ UNCHANGED <<story_files, storeVars, parseVars, charVars>>

\* menu choice 1
CreateCustomStory ==
    /\ pc = "menu"
    /\ BeginStory("custom story creation", CustomSelections)

\* menu choice 2
CreateSurpriseStory ==
    /\ pc = "menu"
    /\ BeginStory("surprise story creation", SurpriseSelections)

\* one round of the loop over the saved characters (lines 487-503), the user
\* typing `choice` and, after n, entering the character `new`
SelectCharacter(choice, new) ==
    /\ pc = "select"
    /\ LET isdigit == choice \in Numbers
           idx == int(choice) - 1
           added == IF choice = "n" THEN <<new>>
                    ELSE IF isdigit /\ 0 <= idx /\ idx < Len(saved_characters[1])
                    THEN <<saved_characters[1][idx + 1]>>
                    ELSE <<>>
       IN  /\ Len(selected_characters) + Len(added) <= MaxSelected
           /\ selected_characters' = selected_characters \o added
           /\ pc' = IF choice = "" THEN "more" ELSE "select"
    /\ UNCHANGED <<operation, story_profile, screen, story_saved, story_files,
                   reported, storeVars, parseVars, charVars, genVars>>

\* no saved character: the user enters one (lines 505-506)
FirstCharacter(new) ==
    /\ pc = "first"
    /\ selected_characters' = selected_characters \o <<new>>
    /\ pc' = "more"
    /\ UNCHANGED <<operation, story_profile, screen, story_saved, story_files,
                   reported, storeVars, parseVars, charVars, genVars>>

\* "Add another character?" answered yes (lines 509-511)
AddAnother(new) ==
    /\ pc = "more"
    /\ Len(selected_characters) < MaxSelected
    /\ selected_characters' = selected_characters \o <<new>>
    /\ UNCHANGED <<pc, operation, story_profile, screen, story_saved, story_files,
                   reported, storeVars, parseVars, charVars, genVars>>

\* "Add another character?" answered no: get_story_characters returns, and
\* create_custom_story asks for the story details
EndSelection ==
    /\ pc = "more"
    /\ LET with_characters ==
               [story_profile EXCEPT
                   !.characters = get_story_characters(selected_characters)]
       IN  story_profile' = IF operation = "custom story creation"
                            THEN get_story_details(with_characters)
                            ELSE with_characters
    /\ pc' = "generate"
    /\ UNCHANGED <<operation, selected_characters, screen, story_saved, story_files,
                   reported, storeVars, parseVars, charVars, genVars>>

\* story = self.generate_story(profile); if story: display_story_output(story)
GenerateStory(story_outcome, analysis_outcome) ==
    /\ pc = "generate"
    /\ LET r == generate_story(story_profile, story_outcome, analysis_outcome)
       IN  /\ call' = [op |-> "generate_story", given |-> story_profile,
                       story_outcome |-> story_outcome,
                       analysis_outcome |-> analysis_outcome, result |-> r]
           /\ IF r.raised # "none"
              THEN /\ reported' = reported \o Uncaught(operation, r)
                   /\ pc' = "crashed"
                   /\ UNCHANGED screen
              ELSE IF r.value = None
              THEN /\ pc' = "return"
                   /\ UNCHANGED <<screen, reported>>
              ELSE /\ screen' = r.value
                   /\ pc' = "persist"
                   /\ UNCHANGED reported
    /\ UNCHANGED <<operation, story_profile, selected_characters, story_saved,
                   story_files, storeVars, parseVars, charVars>>

\* save_story_and_characters(story, profile): save_story, then the update of
\* the saved characters, save_json_data answering `dump`
PersistStory(mkdir, write, dump) ==
    /\ pc = "persist"
    /\ LET saved == save_story(call.result.value[1], story_profile, mkdir, write)
           new == new_characters(saved_characters[1], story_profile.characters)
           all == saved_characters[1] \o new
       IN  IF saved.raised # "none"
           THEN /\ story_saved' = "raised"
                /\ reported' = reported \o Uncaught(operation, saved)
                /\ pc' = "crashed"
                /\ UNCHANGED <<story_files, storeVars>>
           ELSE /\ story_saved' = IF saved.value = None THEN "None" ELSE "path"
                /\ story_files' = story_files \cup saved.written
                /\ pc' = "return"
                /\ IF new = <<>>
                   THEN /\ reported' = reported \o saved.logged
                        /\ UNCHANGED storeVars
                   ELSE /\ saved_characters' = [saved_characters EXCEPT ![1] = all]
                        /\ characters_file' =
                               IF dump = "written" THEN save_characters(all)
                               ELSE IF dump = "open fails" THEN characters_file
                               ELSE <<>>
                        /\ saved_ok' = [saved_ok EXCEPT
                               ![1] = IF dump = "written" THEN "True" ELSE "False"]
                        /\ reported' = reported \o saved.logged \o
                               (IF dump = "written" THEN <<>>
                                ELSE <<Logged(<<"Error saving ", "characters.json">>)>>)
                        /\ UNCHANGED epc
    /\ UNCHANGED <<operation, story_profile, selected_characters, screen,
                   parseVars, charVars, genVars>>

\* menu choices 3 (view_saved_characters), 4 (exit) and anything else
OtherChoice(choice) ==
    /\ pc = "menu"
    /\ pc' = IF choice = "4" THEN "exited" ELSE "return"
    /\ UNCHANGED <<frontVars, storeVars, parseVars, charVars, genVars>>

\* "Return to main menu?"
ReturnToMainMenu(yes) ==
    /\ pc = "return"
    /\ pc' = IF yes THEN "menu" ELSE "exited"
    /\ UNCHANGED <<frontVars, storeVars, parseVars, charVars, genVars>>

NextFront ==
    \/ CreateCustomStory
    \/ CreateSurpriseStory
    \/ pc = "select" /\ \E choice \in SelectionInputs, new \in UserCharacters :
           SelectCharacter(choice, new)
    \/ \E new \in UserCharacters : FirstCharacter(new)
    \/ \E new \in UserCharacters : AddAnother(new)
    \/ EndSelection
    \/ pc = "generate" /\ \E so \in FrontStoryOutcomes, ao \in FrontAnalysisOutcomes :
           GenerateStory(so, ao)
    \/ pc = "persist" /\ \E mkdir \in MkdirOutcomes, write \in WriteOutcomes,
                            dump \in DumpOutcomes :
           PersistStory(mkdir, write, dump)
    \/ \E choice \in {"3", "4", "x"} : OtherChoice(choice)
    \/ \E yes \in BOOLEAN : ReturnToMainMenu(yes)
    \/ pc = "ready" /\ \E request \in Requests, so \in FrontStoryOutcomes,
                          ao \in FrontAnalysisOutcomes :
           PostGenerateStory(request, so, ao)

SpecFront == InitFront /\ [][NextFront]_vars

\* C14: in the custom flow, the surprise flow and the route, whatever the
\* user chose during character selection, the profile generate_story is
\* called with holds at least one character: the user's characters when
\* there are some, the default character otherwise.
GenerateHasCharacter ==
    /\ pc = "generate" =>
          /\ Len(story_profile.characters) >= 1
          /\ selected_characters = <<>> => story_profile.characters = <<Hero>>
          /\ selected_characters # <<>> => story_profile.characters = selected_characters
    /\ (pc \in {"persist", "return", "crashed"} /\ operation # "none" /\ call # <<>>) =>
          Len(call.given.characters) >= 1
    /\ (pc = "called" /\ route_profile(call.given).raised = "none") =>
          Len(route_profile(call.given).value.characters) >= 1

\* generation about to be called for a user who picked none of the saved
\* characters and declined to add one
GenerateHasCharacterWitness ==
    /\ pc = "generate"
    /\ saved_characters[1] # <<>>
    /\ selected_characters = <<>>
    /\ story_profile.characters = <<Hero>>

\* C12: when save_story fails for a generated story, the story generate_story
\* returned is on the screen as returned, the failure has been logged or
\* printed with its cause, and generate_story's result is the story, not None.
SaveFailureKeepsStory ==
    (pc \in {"return", "crashed"} /\ story_saved \in {"None", "raised"}) =>
        /\ call.result.raised = "none"
        /\ call.result.value # None
        /\ screen = call.result.value
        /\ \E i \in 1..Len(reported) :
               \/ Contains(reported[i].text, <<"No space left on device">>)
               \/ Contains(reported[i].text, <<"No such file or directory: 'stories'">>)

\* a titled story on the screen, its file not written for lack of space, the
\* failure logged, and the menu loop going on
SaveFailureKeepsStoryWitness ==
    /\ pc = "return"
    /\ story_saved = "None"
    /\ screen # None
    /\ screen[1].title = <<"a">>
    /\ story_files = {}
    /\ reported = <<Logged(<<"Error saving story: ", "No space left on device">>)>>

\* C15: when the story call of a custom or surprise story fails, nothing is
\* displayed, no story file is written, self.saved_characters and
\* characters.json stay as they were, and run goes on to "Return to main
\* menu?".
GenerationFailureAbortsAttempt ==
    [][(pc = "generate" /\ call'.story_outcome.raised # "none") =>
           /\ screen' = None
           /\ story_files' = story_files
           /\ saved_characters' = saved_characters
           /\ characters_file' = characters_file
           /\ pc' = "return"]_vars

\* a failed story call after an earlier story was saved with its characters:
\* nothing on the screen, the loop at "Return to main menu?"
GenerationFailureAbortsAttemptWitness ==
    /\ pc = "return"
    /\ operation = "surprise story creation"
    /\ call # <<>>
    /\ call.story_outcome.raised # "none"
    /\ call.result.value = None
    /\ screen = None
    /\ story_files # {}
    /\ characters_file # <<>>

====
